---- MODULE Spec2Model ----
(***************************************************************************)
(* Model of the conversion core of soss / Integration Service:             *)
(*   - StringTemplate (packages/core/src/runtime/StringTemplate.cpp)       *)
(*   - ResourcePool, Convert, CharConvert, ContainerConvert                *)
(*     (packages/core/include/is/utils/Convert.hpp)                        *)
(* Strings are sequences of one-character strings; std::size_t is an       *)
(* unsigned integer of reduced width (arithmetic modulo SizeMod).          *)
(***************************************************************************)
EXTENDS Integers, Sequences, FiniteSets, TLC

VARIABLES
    \* ---- StringTemplate::Implementation ----
    template_string,   \* constructor argument
    last_end,          \* local of the constructor
    start,             \* local of the constructor
    _components,       \* std::vector<std::string>
    _substitutions,    \* std::map<std::size_t, std::string>
    tpc,               \* position of the template's life cycle
    message,           \* argument of compute_string
    comp_i,            \* loop variable i of compute_string
    substitute_it,     \* number of map entries the iterator has passed
    result,            \* local std::string of compute_string
    returned,          \* what compute_string handed to its caller
    lookups,           \* field names queried with has_member, in order
    thrown,            \* the exception object in flight, if any
    \* ---- ResourcePool ----
    flavor,            \* "unique" (UniqueResourcePool) or "shared"
    _queue,            \* std::vector<Resource>
    _mutex,            \* owner of the std::mutex, or NoThread
    next_id,           \* identity of the next instance _initializer makes
    ppc,               \* per thread: position inside pop / recycle
    held,              \* per thread: instances the thread references
    arg_r,             \* per thread: the Resource&& passed to recycle
    pop_log,           \* what the last completed pop observed
    \* ---- Convert / ContainerConvert ----
    cpc,               \* position of the conversion scenario
    native,            \* the native value (source of to_xtype_field)
    UpperBound,        \* template parameter of ContainerConvert
    xfield,            \* the reflective field (WritableDynamicDataRef)
    xfield0,           \* the reflective field before to_xtype_field
    resize_calls,      \* sizes passed to xfield.resize, in order
    nback,             \* native destination of from_xtype_field
    nback0             \* nback before from_xtype_field

tvars == <<template_string, last_end, start, _components, _substitutions,
           tpc, message, comp_i, substitute_it, result, returned, lookups,
           thrown>>
pvars == <<flavor, _queue, _mutex, next_id, ppc, held, arg_r, pop_log>>
cvars == <<cpc, native, UpperBound, xfield, xfield0, resize_calls, nback,
           nback0>>
vars == <<tvars, pvars, cvars>>

-----------------------------------------------------------------------------
(* Bounds of the model *)

MaxTokens == 4

-----------------------------------------------------------------------------
(* std::size_t and std::string *)

SizeMod == 65536
npos == SizeMod - 1

SizeAdd(a, b) == (a + b) % SizeMod
SizeSub(a, b) == (a - b) % SizeMod

Min(a, b) == IF a < b THEN a ELSE b

\* std::string::find(ch, pos): first 0-based index >= pos holding ch
find(s, ch, pos) ==
    LET hits == {k \in 0 .. (Len(s) - 1) : k >= pos /\ s[k + 1] = ch}
    IN  IF hits = {} THEN npos
        ELSE CHOOSE k \in hits : \A h \in hits : k <= h

\* std::string::substr(pos, count), for pos <= size()
substr(s, pos, count) ==
    SubSeq(s, pos + 1, pos + Min(count, Len(s) - pos))

MessagePrefix == <<"m", "e", "s", "s", "a", "g", "e", ".">>

\* std::map iteration order: the keys in increasing order
RECURSIVE SortedKeys(_)
SortedKeys(S) ==
    IF S = {} THEN <<>>
    ELSE LET m == CHOOSE k \in S : \A h \in S : k <= h
         IN  <<m>> \o SortedKeys(S \ {m})

\* std::map::operator[] followed by assignment
MapPut(m, k, v) == [x \in (DOMAIN m) \cup {k} |-> IF x = k THEN v ELSE m[x]]

EmptyMap == [x \in {} |-> <<>>]

-----------------------------------------------------------------------------
(* Inputs of the template engine *)

PlaceholderA == <<"{">> \o MessagePrefix \o <<"a", "}">>
PlaceholderB == <<"{">> \o MessagePrefix \o <<"b", "}">>
UnclosedA == <<"{">> \o MessagePrefix \o <<"a">>

Tokens == {<<"x">>, <<"}">>, <<"{">>, UnclosedA, PlaceholderA, PlaceholderB}

RECURSIVE Flatten(_)
Flatten(ts) == IF ts = <<>> THEN <<>> ELSE Head(ts) \o Flatten(Tail(ts))

TemplateStrings ==
    {Flatten(ts) : ts \in UNION {[1 .. n -> Tokens] : n \in 0 .. MaxTokens}}

usage_details == <<"t", "o", "p", "i", "c">>

IntValue(n) == [kind |-> "INT_32", n |-> n, s |-> <<>>]
StringValue(str) == [kind |-> "STRING", n |-> 0, s |-> str]

\* DynamicData of an aggregation type: member name -> value
Messages ==
    {EmptyMap,
     (<<"a">> :> IntValue(42)),
     (<<"b">> :> StringValue(<<"x">>)),
     (<<"a">> :> IntValue(42)) @@ (<<"b">> :> StringValue(<<"x">>)),
     (<<"a">> :> StringValue(<<>>)) @@ (<<"b">> :> IntValue(-7))}

NoString == "none"
NoException ==
    [type |-> "none", template_string |-> <<>>, field_name |-> <<>>,
     details |-> <<>>]

-----------------------------------------------------------------------------
(* FieldToString::to_string *)

Digit(d) == CASE d = 0 -> "0" [] d = 1 -> "1" [] d = 2 -> "2" [] d = 3 -> "3"
              [] d = 4 -> "4" [] d = 5 -> "5" [] d = 6 -> "6" [] d = 7 -> "7"
              [] d = 8 -> "8" [] d = 9 -> "9"

RECURSIVE DecimalDigits(_)
DecimalDigits(n) ==
    IF n < 10 THEN <<Digit(n)>>
    ELSE DecimalDigits(n \div 10) \o <<Digit(n % 10)>>

to_string(data) ==
    IF data.kind = "STRING" THEN data.s
    ELSE IF data.n < 0 THEN <<"-">> \o DecimalDigits(0 - data.n)
    ELSE DecimalDigits(data.n)

-----------------------------------------------------------------------------
(* StringTemplate::Implementation::Implementation *)

TemplateIdle ==
    /\ last_end = 0
    /\ start = 0
    /\ _components = <<>>
    /\ _substitutions = EmptyMap
    /\ message = EmptyMap
    /\ comp_i = 0
    /\ substitute_it = 0
    /\ result = <<>>
    /\ returned = NoString
    /\ lookups = <<>>
    /\ thrown = NoException

InitTemplateVars ==
    /\ template_string \in TemplateStrings
    /\ tpc = "ctor"
    /\ TemplateIdle

evalvars == <<message, comp_i, substitute_it, result, returned, lookups>>

\* lines 35-36
CtorEnter ==
    /\ tpc = "ctor"
    /\ last_end' = 0
    /\ start' = find(template_string, "{", 0)
    /\ tpc' = "loop"
    /\ UNCHANGED <<template_string, _components, _substitutions, thrown>>
    /\ UNCHANGED evalvars
    /\ UNCHANGED <<pvars, cvars>>

\* the memory a growing _components can take is finite
MaxComponents == 2 * MaxTokens + 2

\* lines 197-206
InvalidTemplateFormat(tmpl, details) ==
    [type |-> "InvalidTemplateFormat", template_string |-> tmpl,
     field_name |-> <<>>, details |-> details]

ThrowInvalidTemplateFormat ==
    /\ tpc' = "InvalidTemplateFormat"
    /\ thrown' = InvalidTemplateFormat(template_string, usage_details)
    /\ UNCHANGED <<last_end, start, _components, _substitutions>>

PlaceholderEnd_NoPlusOne(s, st) == find(s, "}", st)

\* line 42: the end of the placeholder that opens at start
PlaceholderEnd(s, st) == SizeAdd(find(s, "}", st), 1)

\* lines 38-60: one iteration of the while loop
ParseIteration ==
    /\ tpc = "loop"
    /\ start < Len(template_string)
    /\ LET literal == substr(template_string, last_end,
                             SizeSub(start, last_end))
           end == PlaceholderEnd(template_string, start)
           substitution_string ==
               substr(template_string, start + 1,
                      SizeSub(SizeSub(end, start), 2))
           components1 == Append(_components, literal)
       IN  IF Len(_components) + 2 > MaxComponents
           THEN /\ tpc' = "bad_alloc"
                /\ thrown' = [NoException EXCEPT !.type = "bad_alloc"]
                /\ UNCHANGED <<last_end, start, _components, _substitutions>>
           ELSE IF end = npos
           THEN ThrowInvalidTemplateFormat
           ELSE IF substr(substitution_string, 0, 8) # MessagePrefix
           THEN ThrowInvalidTemplateFormat
           ELSE /\ last_end' = end
                /\ _substitutions' =
                       MapPut(_substitutions, Len(components1),
                              substr(substitution_string, 8, npos))
                /\ _components' = Append(components1, <<>>)
                /\ start' = find(template_string, "{", end)
                /\ tpc' = "loop"
                /\ UNCHANGED thrown
    /\ UNCHANGED template_string
    /\ UNCHANGED evalvars
    /\ UNCHANGED <<pvars, cvars>>

\* lines 62-66: the loop is left and the tail literal is stored
ParseFinish ==
    /\ tpc = "loop"
    /\ ~(start < Len(template_string))
    /\ _components' =
           IF last_end < Len(template_string)
           THEN Append(_components, substr(template_string, last_end, npos))
           ELSE _components
    /\ tpc' = "parsed"
    /\ UNCHANGED <<template_string, last_end, start, _substitutions, thrown>>
    /\ UNCHANGED evalvars
    /\ UNCHANGED <<pvars, cvars>>

-----------------------------------------------------------------------------
(* StringTemplate::Implementation::compute_string *)

ctorvars == <<template_string, last_end, start, _components, _substitutions>>

\* lines 215-224
UnavailableMessageField_DetailsDropped(field_name, details) ==
    [type |-> "UnavailableMessageField", template_string |-> <<>>,
     field_name |-> field_name, details |-> <<>>]

UnavailableMessageField(field_name, details) ==
    [type |-> "UnavailableMessageField", template_string |-> <<>>,
     field_name |-> field_name, details |-> details]

\* xtypes::AggregationType::has_member, as called at line 94
has_member(msg, field_name) == field_name \in DOMAIN msg

\* lines 79-85; a Template can be evaluated any number of times
ComputeEnter ==
    /\ tpc \in {"parsed", "returned", "UnavailableMessageField"}
    /\ \E m \in Messages : message' = m
    /\ result' = IF _components # <<>> THEN _components[1] ELSE <<>>
    /\ substitute_it' = 0
    /\ comp_i' = 1
    /\ lookups' = <<>>
    /\ returned' = NoString
    /\ thrown' = NoException
    /\ tpc' = "compute"
    /\ UNCHANGED ctorvars
    /\ UNCHANGED <<pvars, cvars>>

\* lines 86-106: one iteration of the for loop
ComputeIteration ==
    /\ tpc = "compute"
    /\ comp_i < Len(_components)
    /\ LET keys == SortedKeys(DOMAIN _substitutions)
       IN  IF substitute_it < Len(keys) /\ keys[substitute_it + 1] = comp_i
           THEN LET field_name == _substitutions[keys[substitute_it + 1]]
                IN  /\ lookups' = Append(lookups, field_name)
                    /\ IF ~has_member(message, field_name)
                       THEN /\ thrown' = UnavailableMessageField(
                                              field_name, usage_details)
                            /\ tpc' = "UnavailableMessageField"
                            /\ UNCHANGED <<result, substitute_it, comp_i>>
                       ELSE /\ result' =
                                   result \o to_string(message[field_name])
                            /\ substitute_it' = substitute_it + 1
                            /\ comp_i' = comp_i + 1
                            /\ UNCHANGED <<thrown, tpc>>
           ELSE /\ result' = result \o _components[comp_i + 1]
                /\ comp_i' = comp_i + 1
                /\ UNCHANGED <<lookups, substitute_it, thrown, tpc>>
    /\ UNCHANGED <<message, returned>>
    /\ UNCHANGED ctorvars
    /\ UNCHANGED <<pvars, cvars>>

\* line 108
ComputeReturn ==
    /\ tpc = "compute"
    /\ ~(comp_i < Len(_components))
    /\ returned' = result
    /\ tpc' = "returned"
    /\ UNCHANGED <<message, comp_i, substitute_it, result, lookups, thrown>>
    /\ UNCHANGED ctorvars
    /\ UNCHANGED <<pvars, cvars>>

-----------------------------------------------------------------------------
(* ResourcePool<Resource, initializerT> *)

NumThreads == 2
MaxDepth == 1
MaxResources == 3
MaxQueue == 3

Threads == 1 .. NumThreads
NoThread == 0
Null == 0

NoPop == [thread |-> NoThread, r |-> Null, source |-> "none",
          duplicate |-> FALSE]

PoolIdle ==
    /\ flavor = "unique"
    /\ _queue = <<>>
    /\ _mutex = NoThread
    /\ next_id = 1
    /\ ppc = [t \in Threads |-> "idle"]
    /\ held = [t \in Threads |-> {}]
    /\ arg_r = [t \in Threads |-> Null]
    /\ pop_log = NoPop

\* lines 292-300: initial_depth instances made by _initializer
InitPoolVars ==
    /\ flavor \in {"unique", "shared"}
    /\ \E initial_depth \in 0 .. MaxDepth :
           /\ _queue = [k \in 1 .. initial_depth |-> k]
           /\ next_id = initial_depth + 1
    /\ _mutex = NoThread
    /\ ppc = [t \in Threads |-> "idle"]
    /\ held = [t \in Threads |-> {}]
    /\ arg_r = [t \in Threads |-> Null]
    /\ pop_log = NoPop

\* pop_back() on an empty vector is undefined: nothing is known of the
\* pool afterwards
PoolBroken == pop_log.source = "empty_store"

\* what _queue.empty() can yield at line 310, where the mutex is not held:
\* the read races with a writer that is inside its critical section
EmptyReads(t) ==
    IF _mutex # NoThread /\ _mutex # t THEN BOOLEAN ELSE {_queue = <<>>}

HandedOut(q, h, a, t, r) ==
    \/ \E k \in DOMAIN q : q[k] = r
    \/ \E u \in Threads \ {t} : r \in h[u] \/ a[u] = r

\* lines 310-313: the emptiness test, and the fresh instance if it is empty
PopCheckEmpty(t) ==
    /\ ~PoolBroken
    /\ ppc[t] = "idle"
    /\ \E empty \in EmptyReads(t) :
           IF empty
           THEN /\ next_id <= MaxResources
                /\ held' = [held EXCEPT ![t] = @ \cup {next_id}]
                /\ next_id' = next_id + 1
                /\ pop_log' = [thread |-> t, r |-> next_id,
                               source |-> "fresh", duplicate |-> FALSE]
                /\ UNCHANGED ppc
           ELSE /\ ppc' = [ppc EXCEPT ![t] = "pop_lock"]
                /\ UNCHANGED <<held, next_id, pop_log>>
    /\ UNCHANGED <<flavor, _queue, _mutex, arg_r>>
    /\ UNCHANGED <<tvars, cvars>>

\* line 315
PopLock(t) ==
    /\ ~PoolBroken
    /\ ppc[t] = "pop_lock"
    /\ _mutex = NoThread
    /\ _mutex' = t
    /\ ppc' = [ppc EXCEPT ![t] = "pop_locked"]
    /\ UNCHANGED <<flavor, _queue, next_id, held, arg_r, pop_log>>
    /\ UNCHANGED <<tvars, cvars>>

\* lines 316-318: back(), pop_back(), return, unlock
PopTake(t) ==
    /\ ~PoolBroken
    /\ ppc[t] = "pop_locked"
    /\ IF _queue # <<>>
       THEN LET r == _queue[Len(_queue)]
                q == SubSeq(_queue, 1, Len(_queue) - 1)
            IN  /\ _queue' = q
                /\ held' = [held EXCEPT ![t] = @ \cup {r}]
                /\ pop_log' = [thread |-> t, r |-> r, source |-> "store",
                               duplicate |-> HandedOut(q, held, arg_r, t, r)]
       ELSE \* undefined behaviour: any instance, or none, comes back
            \E r \in 0 .. (next_id - 1) :
                /\ _queue' = <<>>
                /\ held' = [held EXCEPT
                               ![t] = IF r = Null THEN @ ELSE @ \cup {r}]
                /\ pop_log' = [thread |-> t, r |-> r,
                               source |-> "empty_store",
                               duplicate |-> r # Null /\
                                   HandedOut(<<>>, held, arg_r, t, r)]
    /\ _mutex' = NoThread
    /\ ppc' = [ppc EXCEPT ![t] = "idle"]
    /\ UNCHANGED <<flavor, next_id, arg_r>>
    /\ UNCHANGED <<tvars, cvars>>

\* line 321-322: a thread passes an instance it holds as Resource&&
RecycleCall(t) ==
    /\ ~PoolBroken
    /\ ppc[t] = "idle"
    /\ Len(_queue) + Cardinality({u \in Threads : arg_r[u] # Null}) < MaxQueue
    /\ \E r \in held[t] :
           /\ arg_r' = [arg_r EXCEPT ![t] = r]
           /\ held' = [held EXCEPT ![t] = @ \ {r}]
    /\ ppc' = [ppc EXCEPT ![t] = "recycle_lock"]
    /\ UNCHANGED <<flavor, _queue, _mutex, next_id, pop_log>>
    /\ UNCHANGED <<tvars, cvars>>

\* line 324
RecycleLock(t) ==
    /\ ~PoolBroken
    /\ ppc[t] = "recycle_lock"
    /\ _mutex = NoThread
    /\ _mutex' = t
    /\ ppc' = [ppc EXCEPT ![t] = "recycle_locked"]
    /\ UNCHANGED <<flavor, _queue, next_id, held, arg_r, pop_log>>
    /\ UNCHANGED <<tvars, cvars>>

\* lines 325-326: emplace_back, unlock
RecyclePush(t) ==
    /\ ~PoolBroken
    /\ ppc[t] = "recycle_locked"
    /\ _queue' = Append(_queue, arg_r[t])
    /\ arg_r' = [arg_r EXCEPT ![t] = Null]
    /\ _mutex' = NoThread
    /\ ppc' = [ppc EXCEPT ![t] = "idle"]
    /\ UNCHANGED <<flavor, next_id, held, pop_log>>
    /\ UNCHANGED <<tvars, cvars>>

\* SharedResourcePool: a std::shared_ptr is copied to another holder
ShareCopy(t) ==
    /\ ~PoolBroken
    /\ flavor = "shared"
    /\ ppc[t] = "idle"
    /\ \E u \in Threads \ {t} : \E r \in held[t] \ held[u] :
           held' = [held EXCEPT ![u] = @ \cup {r}]
    /\ UNCHANGED <<flavor, _queue, _mutex, next_id, ppc, arg_r, pop_log>>
    /\ UNCHANGED <<tvars, cvars>>

\* SharedResourcePool: a holder lets go of its std::shared_ptr
ShareReset(t) ==
    /\ ~PoolBroken
    /\ flavor = "shared"
    /\ ppc[t] = "idle"
    /\ \E r \in held[t] : held' = [held EXCEPT ![t] = @ \ {r}]
    /\ UNCHANGED <<flavor, _queue, _mutex, next_id, ppc, arg_r, pop_log>>
    /\ UNCHANGED <<tvars, cvars>>

TemplateUnused ==
    /\ template_string = <<>>
    /\ tpc = "unused"
    /\ TemplateIdle

-----------------------------------------------------------------------------
(* Convert *)

MaxLen == 3

\* ---- the reflective value (eprosima::xtypes), as Convert.hpp uses it ----

\* a reflective value: kind, payload (n: bits of a number, s: characters),
\* declared bound (SEQUENCE: 0 is unbounded; ARRAY: its length), elements
XPrimitive(kind, n, str) ==
    [kind |-> kind, n |-> n, s |-> str, bound |-> 0, elems |-> <<>>]
XCollection(kind, bound, elems) ==
    [kind |-> kind, n |-> 0, s |-> <<>>, bound |-> bound, elems |-> elems]

\* the TypeKind of the C++ type T in value<T>()
KindOf(T) ==
    CASE T = "char" -> "CHAR_8"
      [] T = "uint8_t" -> "UINT_8"
      [] T = "int32_t" -> "INT_32"
      [] T = "string" -> "STRING"

\* the stored representation of a number of type T, and its reading back
Encode(T, v) == IF T \in {"char", "uint8_t"} THEN v % 256 ELSE v
Decode(T, bits) == IF T = "char" /\ bits >= 128 THEN bits - 256 ELSE bits

\* what a violated precondition of the reflective value leads to: the
\* assertion fires, or (assertions compiled out) the behaviour is undefined
Violated == {"rejected", "undefined"}

\* a native value: n for numbers, s for strings, elems for containers
Native(n, str, elems) == [n |-> n, s |-> str, elems |-> elems]

\* WritableDynamicDataRef::value<T>(const T&)
value_set(to, T, v) ==
    IF to.kind = KindOf(T)
    THEN {[status |-> "ok",
           field |-> IF T = "string" THEN [to EXCEPT !.s = v.s]
                     ELSE [to EXCEPT !.n = Encode(T, v.n)]]}
    ELSE {[status |-> st, field |-> to] : st \in Violated}

\* ReadableDynamicDataRef::value<T>()
value_get(from, T) ==
    IF from.kind = KindOf(T)
    THEN {[status |-> "ok",
           v |-> IF T = "string" THEN Native(0, from.s, <<>>)
                 ELSE Native(Decode(T, from.n), <<>>, <<>>)]}
    ELSE {[status |-> st, v |-> Native(0, <<>>, <<>>)] : st \in Violated}

\* a default-constructed element
XDefault == XPrimitive("INT_32", 0, <<>>)

Resized(elems, n) ==
    [k \in 1 .. n |-> IF k <= Len(elems) THEN elems[k] ELSE XDefault]

\* WritableDynamicDataRef::resize(size): only a SEQUENCE can be resized,
\* and only within its declared bound
xresize(to, size) ==
    IF to.kind # "SEQUENCE"
    THEN {[status |-> st, field |-> to] : st \in Violated}
    ELSE IF to.bound = 0 \/ size <= to.bound
    THEN {[status |-> "ok", field |-> [to EXCEPT !.elems = Resized(@, size)]]}
    ELSE {[status |-> "rejected", field |-> to],
          [status |-> "ok", field |-> [to EXCEPT !.elems = Resized(@, size)]]}

\* ---- Convert<Type>, lines 42-72 ----

\* lines 63-70
Convert_to_xtype_field(T, from, to) == value_set(to, T, from)

\* lines 54-59
Convert_from_xtype_field(T, from) == value_get(from, T)

\* ---- CharConvert, lines 83-119 ----

CharConvert_to_xtype_field_NoBranch(from, to) == value_set(to, "char", from)

\* lines 105-117
CharConvert_to_xtype_field(from, to) ==
    IF to.kind = "UINT_8"
    THEN value_set(to, "uint8_t", Native(from.n % 256, <<>>, <<>>))
    ELSE value_set(to, "char", from)

\* lines 90-102
CharConvert_from_xtype_field(from) ==
    IF from.kind = "UINT_8"
    THEN {[r EXCEPT !.v.n = Decode("char", @)] :
             r \in value_get(from, "uint8_t")}
    ELSE value_get(from, "char")

\* ---- ContainerConvert<ElementType, NativeType, UpperBound> ----
\* (ElementType is int32_t)

\* line 253 for every i < N: the first failure ends the loop
WriteElements(from, to, N) ==
    LET M == Min(N, Len(to.elems))
        written == [to EXCEPT !.elems =
                       [k \in DOMAIN @ |->
                           IF k <= M
                           THEN (CHOOSE r \in Convert_to_xtype_field(
                                     "int32_t",
                                     Native(from.elems[k], <<>>, <<>>),
                                     to.elems[k]) : TRUE).field
                           ELSE @[k]]]
    IN  IF N <= Len(to.elems)
        THEN {[status |-> "ok", field |-> written]}
        ELSE {[status |-> st, field |-> written] : st \in Violated}

ContainerConvert_to_xtype_field_NoMin(from, bound, to) ==
    LET N == Len(from.elems)
    IN  UNION {IF r.status # "ok"
               THEN {[status |-> r.status, field |-> r.field,
                      resizes |-> <<N>>]}
               ELSE {[status |-> w.status, field |-> w.field,
                      resizes |-> <<N>>] :
                        w \in WriteElements(from, r.field, N)} :
               r \in xresize(to, N)}

\* lines 245-255
ContainerConvert_to_xtype_field(from, bound, to) ==
    LET N == Min(Len(from.elems), bound)
    IN  UNION {IF r.status # "ok"
               THEN {[status |-> r.status, field |-> r.field,
                      resizes |-> <<N>>]}
               ELSE {[status |-> w.status, field |-> w.field,
                      resizes |-> <<N>>] :
                        w \in WriteElements(from, r.field, N)} :
               r \in xresize(to, N)}

container_resize_ArrayToo(is_array, elems, size) ==
    [k \in 1 .. size |-> IF k <= Len(elems) THEN elems[k] ELSE 0]

\* lines 215-229: std::vector::resize, or nothing for an array
container_resize(is_array, elems, size) ==
    IF is_array THEN elems
    ELSE [k \in 1 .. size |-> IF k <= Len(elems) THEN elems[k] ELSE 0]

\* lines 232-242
ContainerConvert_from_xtype_field(from, bound, is_array, to) ==
    LET N == Min(Len(from.elems), bound)
        sized == container_resize(is_array, to.elems, N)
        reads == [k \in 1 .. N |->
                     CHOOSE r \in Convert_from_xtype_field(
                                      "int32_t", from.elems[k]) : TRUE]
        filled == [k \in DOMAIN sized |->
                      IF k <= N THEN reads[k].v.n ELSE sized[k]]
    IN  IF N > Len(sized)
        THEN {[status |-> "undefined", v |-> to]}
        ELSE {[status |-> "ok", v |-> [to EXCEPT !.elems = filled]]}

\* ---- the conversions a caller can set up ----

Scalars == {"char", "int32_t", "string"}
Containers == {"vector", "bounded_vector", "array", "ContainerConvert"}

Elements == {0, 1}
Stale == 7

SeqsUpTo(S, n) == UNION {[1 .. k -> S] : k \in 0 .. n}

IsArray(type) == type = "array"

\* the native values, each with the UpperBound its Convert<> has
\* (lines 260-282); "ContainerConvert" is the template of lines 185-189
\* instantiated on a std::vector with a bound of the caller's choice
NativeInputs ==
    {[type |-> "char", v |-> Native(c, <<>>, <<>>), bound |-> 0] :
        c \in -128 .. 127}
    \cup {[type |-> "int32_t", v |-> Native(n, <<>>, <<>>), bound |-> 0] :
        n \in {-1, 0, 42}}
    \cup {[type |-> "string", v |-> Native(0, str, <<>>), bound |-> 0] :
        str \in {<<>>, <<"x">>, <<"x", "}">>}}
    \cup {[type |-> "vector", v |-> Native(0, <<>>, e), bound |-> npos] :
        e \in SeqsUpTo(Elements, MaxLen)}
    \cup {[type |-> "array", v |-> Native(0, <<>>, e), bound |-> Len(e)] :
        e \in SeqsUpTo(Elements, MaxLen) \ {<<>>}}
    \cup {x \in [type : {"bounded_vector"},
                 v : {Native(0, <<>>, e) : e \in SeqsUpTo(Elements, MaxLen)},
                 bound : 0 .. MaxLen] : Len(x.v.elems) <= x.bound}
    \cup [type : {"ContainerConvert"},
          v : {Native(0, <<>>, e) : e \in SeqsUpTo(Elements, MaxLen)},
          bound : 0 .. MaxLen]

XElements(S) == {XPrimitive("INT_32", e, <<>>) : e \in S}

\* the reflective fields a native value of the given type is converted with
XFields(type) ==
    IF type = "char"
    THEN {XPrimitive(k, b, <<>>) : k \in {"CHAR_8", "UINT_8", "INT_32"},
                                   b \in {0, 65, 200}}
    ELSE IF type = "int32_t"
    THEN {XPrimitive("INT_32", 0, <<>>), XPrimitive("STRING", 0, <<>>)}
    ELSE IF type = "string"
    THEN {XPrimitive("STRING", 0, <<"y">>), XPrimitive("INT_32", 0, <<>>)}
    ELSE {x \in {XCollection("SEQUENCE", b, e) :
                    b \in 0 .. MaxLen,
                    e \in SeqsUpTo(XElements(Elements), MaxLen)} :
             x.bound = 0 \/ Len(x.elems) <= x.bound}
         \cup {XCollection("ARRAY", Len(e), e) :
                    e \in SeqsUpTo(XElements(Elements), MaxLen) \ {<<>>}}

\* the native destinations of from_xtype_field
NativeOutputs(in) ==
    IF in.type \in Scalars THEN {Native(Stale, <<>>, <<>>)}
    ELSE IF IsArray(in.type)
    THEN {Native(0, <<>>, [k \in 1 .. in.bound |-> Stale])}
    ELSE {Native(0, <<>>, [k \in 1 .. n |-> Stale]) : n \in {0, MaxLen}}

ConvertIdle ==
    /\ cpc = "idle"
    /\ native = [type |-> "char", v |-> Native(0, <<>>, <<>>), bound |-> 0]
    /\ UpperBound = 0
    /\ xfield = XPrimitive("CHAR_8", 0, <<>>)
    /\ xfield0 = XPrimitive("CHAR_8", 0, <<>>)
    /\ resize_calls = <<>>
    /\ nback = Native(0, <<>>, <<>>)
    /\ nback0 = Native(0, <<>>, <<>>)

InitConvertVars ==
    /\ cpc = "ready"
    /\ native \in NativeInputs
    /\ UpperBound = native.bound
    /\ xfield \in XFields(native.type)
    /\ xfield0 = xfield
    /\ resize_calls = <<>>
    /\ nback \in NativeOutputs(native)
    /\ nback0 = nback

\* Convert<native.type>::to_xtype_field(native, xfield)
to_xtype_field(in, bound, to) ==
    IF in.type = "char"
    THEN {[status |-> r.status, field |-> r.field, resizes |-> <<>>] :
             r \in CharConvert_to_xtype_field(in.v, to)}
    ELSE IF in.type \in Scalars
    THEN {[status |-> r.status, field |-> r.field, resizes |-> <<>>] :
             r \in Convert_to_xtype_field(in.type, in.v, to)}
    ELSE ContainerConvert_to_xtype_field(in.v, bound, to)

\* Convert<native.type>::from_xtype_field(xfield, nback)
from_xtype_field(in, bound, from, to) ==
    IF in.type = "char" THEN CharConvert_from_xtype_field(from)
    ELSE IF in.type \in Scalars
    THEN Convert_from_xtype_field(in.type, from)
    ELSE ContainerConvert_from_xtype_field(from, bound, IsArray(in.type), to)

\* a caller writes the native value into the reflective field
ToXtypeField ==
    /\ cpc = "ready"
    /\ \E r \in to_xtype_field(native, UpperBound, xfield) :
           /\ xfield' = r.field
           /\ resize_calls' = resize_calls \o r.resizes
           /\ cpc' = IF r.status = "ok" THEN "written" ELSE r.status
    /\ UNCHANGED <<native, UpperBound, xfield0, nback, nback0>>
    /\ UNCHANGED <<tvars, pvars>>

\* a caller reads the reflective field into a native value: either the field
\* as it was given ("read"), or the field just written ("read_back")
FromXtypeField ==
    /\ cpc \in {"ready", "written"}
    /\ \E r \in from_xtype_field(native, UpperBound, xfield, nback) :
           /\ nback' = IF r.status = "ok" THEN r.v ELSE nback
           /\ cpc' = IF r.status # "ok" THEN "read_" \o r.status
                     ELSE IF cpc = "written" THEN "read_back" ELSE "read"
    /\ UNCHANGED <<native, UpperBound, xfield, xfield0, resize_calls, nback0>>
    /\ UNCHANGED <<tvars, pvars>>

InitTemplate == InitTemplateVars /\ PoolIdle /\ ConvertIdle


NextTemplate ==
    \/ CtorEnter
    \/ ParseIteration
    \/ ParseFinish
    \/ ComputeEnter
    \/ ComputeIteration
    \/ ComputeReturn

SpecTemplate == InitTemplate /\ [][NextTemplate]_vars

InitPool == InitPoolVars /\ TemplateUnused /\ ConvertIdle

NextPool ==
    \E t \in Threads :
        \/ PopCheckEmpty(t)
        \/ PopLock(t)
        \/ PopTake(t)
        \/ RecycleCall(t)
        \/ RecycleLock(t)
        \/ RecyclePush(t)
        \/ ShareCopy(t)
        \/ ShareReset(t)

SpecPool == InitPool /\ [][NextPool]_vars

InitConvert == InitConvertVars /\ TemplateUnused /\ PoolIdle

NextConvert == ToXtypeField \/ FromXtypeField

SpecConvert == InitConvert /\ [][NextConvert]_vars

-----------------------------------------------------------------------------
(* The template language, as the specification describes it *)

FirstIndex(s, ch, from) ==
    LET hits == {k \in from .. Len(s) : s[k] = ch}
    IN  IF hits = {} THEN 0 ELSE CHOOSE k \in hits : \A h \in hits : k <= h

Literal(text) == [placeholder |-> FALSE, bad |-> FALSE, text |-> text]
Placeholder(name) == [placeholder |-> TRUE, bad |-> FALSE, text |-> name]
Malformed == [placeholder |-> FALSE, bad |-> TRUE, text |-> <<>>]

\* literal text interleaved with {message.<field>} placeholders
RECURSIVE Segments(_)
Segments(s) ==
    LET open == FirstIndex(s, "{", 1)
        close == FirstIndex(s, "}", open + 1)
    IN  IF open = 0
        THEN IF s = <<>> THEN <<>> ELSE <<Literal(s)>>
        ELSE IF close = 0
                \/ SubSeq(s, open + 1, Min(open + 8, Len(s))) # MessagePrefix
        THEN <<Malformed>>
        ELSE (IF open = 1 THEN <<>> ELSE <<Literal(SubSeq(s, 1, open - 1))>>)
             \o <<Placeholder(SubSeq(s, open + 9, close - 1))>>
             \o Segments(SubSeq(s, close + 1, Len(s)))

WellFormed(s) == \A k \in DOMAIN Segments(s) : ~Segments(s)[k].bad

\* the field names of the placeholders, left to right
FieldsOf(s) ==
    LET segs == Segments(s)
        F[k \in 0 .. Len(segs)] ==
            IF k = 0 THEN <<>>
            ELSE IF segs[k].placeholder THEN Append(F[k - 1], segs[k].text)
            ELSE F[k - 1]
    IN  F[Len(segs)]

\* the text with every placeholder replaced by its field's string
Substituted(s, msg) ==
    LET segs == Segments(s)
        R[k \in 0 .. Len(segs)] ==
            IF k = 0 THEN <<>>
            ELSE IF segs[k].placeholder
            THEN R[k - 1] \o to_string(msg[segs[k].text])
            ELSE R[k - 1] \o segs[k].text
    IN  R[Len(segs)]

AllFieldsPresent(s, msg) ==
    \A k \in DOMAIN FieldsOf(s) : FieldsOf(s)[k] \in DOMAIN msg

\* index of the first placeholder whose field msg lacks, or 0
FirstMissing(s, msg) ==
    LET missing == {k \in DOMAIN FieldsOf(s) : FieldsOf(s)[k] \notin DOMAIN msg}
    IN  IF missing = {} THEN 0
        ELSE CHOOSE k \in missing : \A h \in missing : k <= h

-----------------------------------------------------------------------------
(* Claims on the template engine *)

\* C2: a template with an opening brace that no closing brace follows is
\* rejected with InvalidTemplateFormat: the loop iteration that stands on
\* such a brace throws InvalidTemplateFormat, and no Template is produced.
C2_UnmatchedBraceRejected ==
    [][(/\ tpc = "loop"
        /\ start < Len(template_string)
        /\ find(template_string, "}", start) = npos)
       => tpc' = "InvalidTemplateFormat"]_vars

\* C3: the scan position strictly advances on every iteration of the
\* constructor's parsing loop that goes on to another iteration.
C3_ScanAdvances ==
    [][(tpc = "loop" /\ tpc' = "loop") => start' > start]_vars

\* C7: when compute_string fails with UnavailableMessageField, the exception
\* names the first placeholder field, left to right, that the value lacks and
\* carries the usage details; only the placeholders up to that one were
\* looked up; nothing was returned.  A value that lacks a field never gets a
\* string back.
C7_FirstMissingField ==
    /\ tpc = "UnavailableMessageField" =>
          LET k == FirstMissing(template_string, message)
          IN  /\ k > 0
              /\ thrown.type = "UnavailableMessageField"
              /\ thrown.field_name = FieldsOf(template_string)[k]
              /\ thrown.details = usage_details
              /\ lookups = SubSeq(FieldsOf(template_string), 1, k)
              /\ returned = NoString
    /\ tpc = "returned" => FirstMissing(template_string, message) = 0
    /\ tpc = "compute" =>
          /\ returned = NoString
          /\ \A k \in DOMAIN lookups :
                 /\ lookups[k] = FieldsOf(template_string)[k]
                 /\ k < Len(lookups) => lookups[k] \in DOMAIN message

C7_Witness ==
    /\ tpc = "UnavailableMessageField"
    /\ template_string = PlaceholderA \o <<"x">> \o PlaceholderB \o PlaceholderA
    /\ message = (<<"a">> :> IntValue(42))
    /\ thrown.field_name = <<"b">>
    /\ lookups = <<<<"a">>, <<"b">>>>

\* C8: a well-formed template always parses, and evaluated on a value that
\* has every referenced field it returns the template text with each
\* placeholder replaced, left to right, by the string of its field and with
\* all literal text kept as it is.
C8_Substitution ==
    /\ WellFormed(template_string) =>
          tpc \notin {"InvalidTemplateFormat", "bad_alloc"}
    /\ (/\ tpc \in {"compute", "returned", "UnavailableMessageField"}
        /\ AllFieldsPresent(template_string, message))
       => tpc # "UnavailableMessageField"
    /\ tpc = "returned" =>
          returned = Substituted(template_string, message)

C8_Witness ==
    /\ tpc = "returned"
    /\ template_string =
           <<"x">> \o PlaceholderA \o PlaceholderB \o <<"}">>
    /\ message = (<<"a">> :> IntValue(42)) @@ (<<"b">> :> StringValue(<<"x">>))
    /\ returned = <<"x", "4", "2", "x", "}">>

-----------------------------------------------------------------------------
(* Claims on the resource pool *)

\* C1: under any interleaving of pop and recycle no resource is duplicated:
\* a pop returns a fresh instance or one it removed from the store, never
\* one that is still in the store or handed to another caller, and a pop
\* never removes an element from an empty store.
C1_NoDuplicateNoEmptyPop ==
    /\ pop_log.source # "empty_store"
    /\ flavor = "unique" => ~pop_log.duplicate

\* C4: in a shared pool no instance in the store is referenced by an
\* outside holder: recycle admits an instance only when no other holder
\* than the one returning it remains.
C4_StoreNotReferenced ==
    flavor = "shared" =>
        \A k \in DOMAIN _queue : \A t \in Threads : _queue[k] \notin held[t]

-----------------------------------------------------------------------------
(* Claims on the conversions *)

ConversionFailed ==
    cpc \in {"rejected", "undefined", "read_rejected", "read_undefined"}

C6_ArrayNeverResized ==
    xfield0.kind = "ARRAY" =>
        /\ resize_calls = <<>>
        /\ Len(xfield.elems) = xfield0.bound

\* the reflective field has the kind the native type is registered for
KindMatches ==
    CASE native.type = "char" -> xfield0.kind \in {"CHAR_8", "UINT_8"}
      [] native.type = "int32_t" -> xfield0.kind = "INT_32"
      [] native.type = "string" -> xfield0.kind = "STRING"
      [] native.type = "vector" ->
             xfield0.kind = "SEQUENCE" /\ xfield0.bound = 0
      [] native.type = "bounded_vector" ->
             xfield0.kind = "SEQUENCE" /\ xfield0.bound = native.bound
      [] native.type = "array" ->
             xfield0.kind = "ARRAY" /\ xfield0.bound = native.bound
      [] OTHER -> FALSE

\* C9: a native value of a registered type written into a reflective field
\* of its kind with to_xtype_field and read back with from_xtype_field comes
\* back equal: both calls succeed and the value read equals the one written.
C9_RoundTrip ==
    KindMatches =>
        /\ ~ConversionFailed
        /\ cpc = "read_back" => nback = native.v

\* C10: a native char written into a field of unsigned-8-bit kind or of
\* signed-8-bit kind is stored with success as the same 8-bit pattern, the
\* two's complement pattern of the char, and read back from either kind of
\* field it is the char that was written.
C10_CharDuality ==
    (native.type = "char" /\ xfield0.kind \in {"CHAR_8", "UINT_8"}) =>
        /\ ~ConversionFailed
        /\ cpc \in {"written", "read_back"} =>
               /\ xfield.kind = xfield0.kind
               /\ xfield.n = native.v.n % 256
        /\ cpc = "read" => nback.n % 256 = xfield.n
        /\ cpc = "read_back" => nback.n = native.v.n

C10_Witness ==
    /\ cpc = "read_back"
    /\ native.type = "char"
    /\ native.v.n = -56
    /\ xfield.kind = "UINT_8"
    /\ xfield.n = 200
    /\ nback.n = -56

\* C11: from_xtype_field into a fixed-size array of N slots never changes
\* the array's length, whatever the length S of the source: the first
\* min(S, N) slots hold the converted source elements in order and every
\* slot from min(S, N) on is as it was before the call.
C11_ArrayImmutable ==
    native.type = "array" =>
        /\ Len(nback.elems) = native.bound
        /\ Len(nback0.elems) = native.bound
        /\ cpc \in {"read", "read_back"} =>
               LET copied == Min(Len(xfield.elems), native.bound)
               IN  \A k \in 1 .. native.bound :
                       nback.elems[k] = IF k <= copied
                                        THEN Decode("int32_t",
                                                    xfield.elems[k].n)
                                        ELSE nback0.elems[k]
        /\ cpc \notin {"read_rejected", "read_undefined"}

C11_Witness ==
    /\ cpc = "read"
    /\ native.type = "array"
    /\ native.bound = 3
    /\ xfield = XCollection("SEQUENCE", 0, <<XPrimitive("INT_32", 1, <<>>)>>)
    /\ nback0.elems = <<Stale, Stale, Stale>>
    /\ nback.elems = <<1, Stale, Stale>>

====
